---------------------------- MODULE Spec2Model ----------------------------
(***************************************************************************)
(* A model of the flight-alert webhook adapter (aeroapi_departalert).      *)
(*                                                                         *)
(* The repository holds several versions of the same two request handlers: *)
(*   "index"    src/index.js lines 1-332   (/webhook/chat, /webhook/subscribe) *)
(*   "part_000" src/unnamed/part_000       (/webhook/chat with the IATA->ICAO  *)
(*                                          translation fallback)              *)
(*   "part_001" src/unnamed/part_001       (/webhook/chat, /webhook/subscribe) *)
(* plus a single-query draft of /webhook/chat (src/index.js lines 334-439),*)
(* of which only the date helper parseYmdToStartEnd is modelled here.      *)
(*                                                                         *)
(* Strings are sequences of one-character strings, so that trimming,       *)
(* upper-casing, pattern matching and number conversion are computed.      *)
(* JSON values of a request body are records [t, s]: t is the JavaScript   *)
(* type and s the value's String() rendering.                              *)
(*                                                                         *)
(* Time: TLC's integers are 32 bits wide, so a UTC-midnight instant in     *)
(* milliseconds (Date.UTC's result) is carried as its day number since     *)
(* 1970-01-01 (ms = day * 86400000), and the handlers' epoch arithmetic is *)
(* done in seconds (sec = day * 86400), for dates before 2038.             *)
(***************************************************************************)
EXTENDS Integers, Sequences, FiniteSets, TLC

VARIABLES
    \* ---- one request to one handler ----
    variant,      \* which version of the server runs
    endpoint,     \* "chat" or "subscribe"
    body,         \* req.body
    cfg,          \* CFG: which environment settings are present
    provider,     \* what the provider answers to each outbound call
    pc,           \* position of the async handler
    flights,      \* the handler's local `flights`
    calls,        \* outbound calls issued so far, in order
    chosen,       \* the handler's local `chosen`
    responses,    \* res.status(..).json(..) calls made so far, in order
    \* ---- the Date Normalizer applied to one input ----
    dateIn, dateOut,
    \* ---- the Flight Selector applied to one input ----
    selIn, selOut,
    \* ---- the server with a second request in progress ----
    parked,       \* the locals of the request whose handler is suspended
    served        \* number of requests the server has accepted

handlerVars == <<variant, endpoint, body, cfg, provider, pc, flights, calls, chosen, responses>>
dateVars    == <<dateIn, dateOut>>
selVars     == <<selIn, selOut>>
serverVars  == <<parked, served>>
vars        == <<handlerVars, dateVars, selVars, serverVars>>

-----------------------------------------------------------------------------
(* JavaScript values and strings                                           *)

Undefined == [t |-> "undefined", s |-> <<>>]
JsStr(s)  == [t |-> "string", s |-> s]
JsNum(s)  == [t |-> "number", s |-> s]
JsNull    == [t |-> "null", s |-> <<>>]

\* A JSON object whose conversion to a string throws a TypeError: its own
\* "toString" key hides Object.prototype.toString, e.g. {"toString": 1}.
Unprintable == [t |-> "object", s |-> <<>>]

\* JavaScript truthiness of a JSON value: undefined, null, "" and 0 are
\* falsy, every object is truthy.
Truthy(v) ==
    \/ v.t = "string" /\ v.s # <<>>
    \/ v.t = "number" /\ v.s # <<"0">>
    \/ v.t = "object"

\* String(v) throws
StringThrows(v) == v.t = "object"

\* String(v)
JsString(v) ==
    IF v.t = "undefined" THEN <<"u","n","d","e","f","i","n","e","d">> ELSE v.s

\* v || '' , the idiom of parseYmdToStartMs
OrEmpty(v) == IF Truthy(v) THEN v ELSE JsStr(<<>>)

Digits == {"0","1","2","3","4","5","6","7","8","9"}

DigitVal(c) ==
    CASE c = "0" -> 0 [] c = "1" -> 1 [] c = "2" -> 2 [] c = "3" -> 3
      [] c = "4" -> 4 [] c = "5" -> 5 [] c = "6" -> 6 [] c = "7" -> 7
      [] c = "8" -> 8 [] c = "9" -> 9

\* The decimal digit of a number 0..9
DigitChar(n) ==
    CASE n = 0 -> "0" [] n = 1 -> "1" [] n = 2 -> "2" [] n = 3 -> "3"
      [] n = 4 -> "4" [] n = 5 -> "5" [] n = 6 -> "6" [] n = 7 -> "7"
      [] n = 8 -> "8" [] n = 9 -> "9"

\* `${k}` for a number k >= 0
RECURSIVE Decimal(_)
Decimal(k) ==
    IF k < 10 THEN <<DigitChar(k)>>
    ELSE Decimal(k \div 10) \o <<DigitChar(k % 10)>>

\* unary plus on a string of decimal digits
RECURSIVE ToNumber(_)
ToNumber(s) ==
    IF s = <<>> THEN 0
    ELSE 10 * ToNumber(SubSeq(s, 1, Len(s) - 1)) + DigitVal(s[Len(s)])

\* \s of a regular expression, String.prototype.trim's white space
WhiteSpace == {" ", "\t"}

RECURSIVE TrimStart(_)
TrimStart(s) ==
    IF s # <<>> /\ Head(s) \in WhiteSpace THEN TrimStart(Tail(s)) ELSE s

RECURSIVE TrimEnd(_)
TrimEnd(s) ==
    IF s # <<>> /\ s[Len(s)] \in WhiteSpace
    THEN TrimEnd(SubSeq(s, 1, Len(s) - 1)) ELSE s

\* String.prototype.trim
Trim(s) == TrimEnd(TrimStart(s))

LowerCaseLetters ==
    <<"a","b","c","d","e","f","g","h","i","j","k","l","m",
      "n","o","p","q","r","s","t","u","v","w","x","y","z">>

UpperCaseLetters ==
    <<"A","B","C","D","E","F","G","H","I","J","K","L","M",
      "N","O","P","Q","R","S","T","U","V","W","X","Y","Z">>

UpperOf(c) ==
    IF \E i \in 1..26 : LowerCaseLetters[i] = c
    THEN UpperCaseLetters[CHOOSE i \in 1..26 : LowerCaseLetters[i] = c]
    ELSE c

\* String.prototype.toUpperCase
ToUpperCase(s) == [i \in 1..Len(s) |-> UpperOf(s[i])]

\* .replace(/\s+/g, '')
RECURSIVE StripWhiteSpace(_)
StripWhiteSpace(s) ==
    IF s = <<>> THEN <<>>
    ELSE IF Head(s) \in WhiteSpace THEN StripWhiteSpace(Tail(s))
    ELSE <<Head(s)>> \o StripWhiteSpace(Tail(s))

AllDigits(s) == \A i \in 1..Len(s) : s[i] \in Digits

\* The default of trim's parameter n
DefaultN == 800

\* trim(s, n): t.length > n ? t.slice(0, n) + ` ...[+${t.length - n} chars]` : t
\* ("~" stands for the one-character ellipsis U+2026 of the source)
trim(s, n) ==
    IF Len(s) > n
    THEN SubSeq(s, 1, n) \o <<" ", "~", "[", "+">> \o Decimal(Len(s) - n)
         \o <<" ", "c", "h", "a", "r", "s", "]">>
    ELSE s

-----------------------------------------------------------------------------
(* Date Normalizer                                                         *)

\* Day number (days since 1970-01-01) of the first day of month index m
\* (0 = January) of year y in the proleptic Gregorian calendar: the
\* MakeDay step of Date.UTC for a month already reduced to 0..11.
DayFromYearMonth(y, m) ==
    LET yy  == IF m <= 1 THEN y - 1 ELSE y
        era == yy \div 400
        yoe == yy - era * 400
        mp  == (m + 10) % 12
        doy == (153 * mp + 2) \div 5
        doe == yoe * 365 + yoe \div 4 - yoe \div 100 + doy
    IN  era * 146097 + doe - 719468

\* Date.UTC(yr, monthIndex, day, 0, 0, 0, 0), as a day number.  A year in
\* 0..99 is taken as 1900 + year; an out-of-range month or day overflows
\* into the neighbouring year or month.
DateUTC(yr, monthIndex, day) ==
    LET full == IF 0 <= yr /\ yr <= 99 THEN 1900 + yr ELSE yr
        ym   == full + (monthIndex \div 12)
        mn   == monthIndex % 12
    IN  DayFromYearMonth(ym, mn) + day - 1

\* new Date(ms).getUTCFullYear() / getUTCMonth() + 1 / getUTCDate()
\* for the instant at day number z.
UTCFields(z) ==
    LET zz  == z + 719468
        era == zz \div 146097
        doe == zz - era * 146097
        yoe == (doe - doe \div 1460 + doe \div 36524 - doe \div 146096) \div 365
        doy == doe - (365 * yoe + yoe \div 4 - yoe \div 100)
        mp  == (5 * doy + 2) \div 153
        d   == doy - (153 * mp + 2) \div 5 + 1
        m   == IF mp < 10 THEN mp + 3 ELSE mp - 9
        y   == yoe + era * 400 + (IF m <= 2 THEN 1 ELSE 0)
    IN  [year |-> y, month |-> m, date |-> d]

\* A mutation of YmdRegExp without the closing anchor $.
YmdRegExp_Unanchored(t) ==
    /\ Len(t) >= 10
    /\ AllDigits(SubSeq(t, 1, 4))
    /\ t[5] = "-"
    /\ AllDigits(SubSeq(t, 6, 7))
    /\ t[8] = "-"
    /\ AllDigits(SubSeq(t, 9, 10))

\* /^(\d{4})-(\d{2})-(\d{2})$/
YmdRegExp(t) ==
    /\ Len(t) = 10
    /\ AllDigits(SubSeq(t, 1, 4))
    /\ t[5] = "-"
    /\ AllDigits(SubSeq(t, 6, 7))
    /\ t[8] = "-"
    /\ AllDigits(SubSeq(t, 9, 10))

Null == [null |-> TRUE, day |-> 0]
StartMs(d) == [null |-> FALSE, day |-> d]

\* A mutation of parseYmdToStartMs without the round-trip check.
parseYmdToStartMs_NoRoundTrip(ymd) ==
    LET t == Trim(JsString(OrEmpty(ymd)))
    IN  IF ~YmdRegExp(t) THEN Null
        ELSE StartMs(DateUTC(ToNumber(SubSeq(t, 1, 4)),
                             ToNumber(SubSeq(t, 6, 7)) - 1,
                             ToNumber(SubSeq(t, 9, 10))))

\* parseYmdToStartMs(ymd): Null, or the UTC midnight of the date.
parseYmdToStartMs(ymd) ==
    LET t == Trim(JsString(OrEmpty(ymd)))
    IN  IF ~YmdRegExp(t) THEN Null
        ELSE LET yr  == ToNumber(SubSeq(t, 1, 4))
                 mon == ToNumber(SubSeq(t, 6, 7))
                 day == ToNumber(SubSeq(t, 9, 10))
                 startMs == DateUTC(yr, mon - 1, day)
                 chk == UTCFields(startMs)
             IN  IF chk.year # yr \/ chk.month # mon \/ chk.date # day
                 THEN Null ELSE StartMs(startMs)

\* parseYmdToStartEnd(ymd) of the single-query draft: { ok: false }, or
\* { ok: true, start, end } with start the day's midnight and end one day
\* later (both as day numbers).  (ymd || '').trim() is applied to a string.
parseYmdToStartEnd(ymd) ==
    LET t == Trim(OrEmpty(ymd).s)
    IN  IF ~YmdRegExp(t) THEN [ok |-> FALSE, start |-> 0, end |-> 0]
        ELSE LET yr  == ToNumber(SubSeq(t, 1, 4))
                 mon == ToNumber(SubSeq(t, 6, 7))
                 day == ToNumber(SubSeq(t, 9, 10))
                 startMs == DateUTC(yr, mon - 1, day)
                 chk == UTCFields(startMs)
             IN  IF chk.year # yr \/ chk.month # mon \/ chk.date # day
                 THEN [ok |-> FALSE, start |-> 0, end |-> 0]
                 ELSE [ok |-> TRUE, start |-> startMs, end |-> startMs + 1]

-----------------------------------------------------------------------------
(* Flight Selector                                                         *)

\* A timestamp field of a candidate: absent, or an ISO-8601 string that
\* Date.parse reads as `sec` seconds since the epoch (whole seconds).
Absent == [present |-> FALSE, sec |-> 0]
Iso(t) == [present |-> TRUE, sec |-> t]

\* Number.MAX_SAFE_INTEGER, scaled to the width of TLC's integers: as in
\* the code, it exceeds every distance between two representable instants.
MAX_SAFE_INTEGER == 2147483647

Abs(x) == IF x < 0 THEN -x ELSE x

\* f.scheduled_out || f.scheduled_off || f.scheduled_departure || ''
FirstTimestamp(f) ==
    IF f.scheduled_out.present THEN f.scheduled_out
    ELSE IF f.scheduled_off.present THEN f.scheduled_off
    ELSE f.scheduled_departure

\* Date.parse(..) || 0, in seconds: an absent field parses to NaN, read as 0
DateParseOrZero(field) == IF field.present THEN field.sec ELSE 0

\* score: Math.abs(ts ? ts / 1000 - baseStartSec : Number.MAX_SAFE_INTEGER)
Score(f, baseStartSec) ==
    LET ts == DateParseOrZero(FirstTimestamp(f))
    IN  Abs(IF ts # 0 THEN ts - baseStartSec ELSE MAX_SAFE_INTEGER)

\* One step of Array.prototype.sort with comparator (a, b) => a.score - b.score,
\* which is stable: x goes behind every element that does not compare greater.
RECURSIVE InsertSorted(_, _)
InsertSorted(x, sorted) ==
    IF sorted = <<>> THEN <<x>>
    ELSE IF Head(sorted).score - x.score > 0 THEN <<x>> \o sorted
    ELSE <<Head(sorted)>> \o InsertSorted(x, Tail(sorted))

\* .sort((a, b) => a.score - b.score)
RECURSIVE SortByScore(_)
SortByScore(scored) ==
    IF scored = <<>> THEN <<>>
    ELSE InsertSorted(scored[Len(scored)],
                      SortByScore(SubSeq(scored, 1, Len(scored) - 1)))

\* The position in `list` of the element pickBestFlight returns, 0 for null:
\* flights.map(f => ({ f, score })).sort(..)[0].f
PickBestIndex(list, baseStartSec) ==
    IF list = <<>> THEN 0
    ELSE LET scored == [i \in 1..Len(list) |->
                           [f |-> i, score |-> Score(list[i], baseStartSec)]]
         IN  SortByScore(scored)[1].f

-----------------------------------------------------------------------------
(* Flight Query Builder, AirlineCodeMap, alert payload                     *)

\* A-Z a-z 0-9 - _ . ! ~ * ' ( ) are left alone by encodeURIComponent
Unreserved ==
    Digits \cup {LowerCaseLetters[i] : i \in 1..26}
           \cup {UpperCaseLetters[i] : i \in 1..26}
           \cup {"-", "_", ".", "!", "~", "*", "'", "(", ")"}

PercentEncoded(c) ==
    CASE c = " "  -> <<"%","2","0">>
      [] c = "\t" -> <<"%","0","9">>
      [] c = "/"  -> <<"%","2","F">>
      [] c = "?"  -> <<"%","3","F">>
      [] OTHER    -> <<"%","x","x">>

\* encodeURIComponent
RECURSIVE encodeURIComponent(_)
encodeURIComponent(s) ==
    IF s = <<>> THEN <<>>
    ELSE (IF Head(s) \in Unreserved THEN <<Head(s)>> ELSE PercentEncoded(Head(s)))
         \o encodeURIComponent(Tail(s))

\* buildFlightsUrl(ident, start, end, 'date'): .../flights/<ident>?start=<ymd>
\* with the request's departureDate interpolated as it came.
buildFlightsUrlDate(ident, departureDate) ==
    [ident |-> encodeURIComponent(ident), mode |-> "date",
     startYmd |-> JsString(departureDate), start |-> 0, end |-> 0]

\* buildFlightsUrl(ident, start, end, 'epoch'): ...?start=<sec>&end=<sec>
buildFlightsUrlEpoch(ident, start, end) ==
    [ident |-> encodeURIComponent(ident), mode |-> "epoch",
     startYmd |-> <<>>, start |-> start, end |-> end]

NoUrl == [ident |-> <<>>, mode |-> "none", startYmd |-> <<>>, start |-> 0, end |-> 0]

\* IATA_TO_ICAO[prefix]; <<>> stands for undefined
IATA_TO_ICAO(prefix) ==
    CASE prefix = <<"A","K">> -> <<"A","X","M">>
      [] prefix = <<"M","H">> -> <<"M","A","S">>
      [] prefix = <<"S","Q">> -> <<"S","I","A">>
      [] prefix = <<"T","R">> -> <<"T","G","W">>
      [] prefix = <<"O","D">> -> <<"M","X","D">>
      [] prefix = <<"Q","Z">> -> <<"A","W","Q">>
      [] prefix = <<"F","D">> -> <<"A","I","Q">>
      [] prefix = <<"6","E">> -> <<"I","G","O">>
      [] prefix = <<"G","A">> -> <<"G","I","A">>
      [] OTHER -> <<>>

\* /^([A-Z]{2})(\d{1,5})$/
IataIdentRegExp(ident) ==
    /\ Len(ident) >= 3
    /\ Len(ident) <= 7
    /\ \A i \in 1..2 : \E j \in 1..26 : UpperCaseLetters[j] = ident[i]
    /\ AllDigits(SubSeq(ident, 3, Len(ident)))

\* A mutation of IcaoIdent that translates every two-letter prefix, keeping
\* a prefix the map does not know.
IcaoIdent_NoMapCheck(identRaw) ==
    IF IataIdentRegExp(identRaw)
    THEN (IF IATA_TO_ICAO(SubSeq(identRaw, 1, 2)) # <<>>
          THEN IATA_TO_ICAO(SubSeq(identRaw, 1, 2))
          ELSE SubSeq(identRaw, 1, 2) \o <<"X">>)
         \o SubSeq(identRaw, 3, Len(identRaw))
    ELSE <<>>

\* A mutation of IcaoIdent in which the translated identifier is the
\* original one: step 3 repeats the query of step 1.
IcaoIdent_Untranslated(identRaw) ==
    IF IataIdentRegExp(identRaw) /\ IATA_TO_ICAO(SubSeq(identRaw, 1, 2)) # <<>>
    THEN identRaw
    ELSE <<>>

\* The translated identifier of step 3, <<>> when the step is skipped:
\* m && IATA_TO_ICAO[m[1]] ? `${IATA_TO_ICAO[m[1]]}${m[2]}` : (skip)
IcaoIdent(identRaw) ==
    IF IataIdentRegExp(identRaw) /\ IATA_TO_ICAO(SubSeq(identRaw, 1, 2)) # <<>>
    THEN IATA_TO_ICAO(SubSeq(identRaw, 1, 2)) \o SubSeq(identRaw, 3, Len(identRaw))
    ELSE <<>>

\* A mutation of buildAlertPayload that also asks for arrival events and
\* for a 10-minute reminder.
buildAlertPayload_Arrival(identIcao, startYmd, targetUrl) ==
    [ident |-> identIcao, start |-> startYmd, end |-> startYmd,
     impending_departure |-> <<1, 3, 5, 10>>,
     events |-> [departure |-> TRUE, cancelled |-> TRUE, diverted |-> TRUE,
                 arrival |-> TRUE, filed |-> FALSE, out |-> FALSE, off |-> FALSE,
                 on |-> FALSE, in |-> FALSE, hold_start |-> FALSE, hold_end |-> FALSE],
     target_url |-> targetUrl]

\* buildAlertPayload({ identIcao, startYmd, targetUrl })
buildAlertPayload(identIcao, startYmd, targetUrl) ==
    [ident |-> identIcao, start |-> startYmd, end |-> startYmd,
     impending_departure |-> <<1, 3, 5>>,
     events |-> [departure |-> TRUE, cancelled |-> TRUE, diverted |-> TRUE,
                 arrival |-> FALSE, filed |-> FALSE, out |-> FALSE, off |-> FALSE,
                 on |-> FALSE, in |-> FALSE, hold_start |-> FALSE, hold_end |-> FALSE],
     target_url |-> targetUrl]

NoPayload ==
    [ident |-> Undefined, start |-> Undefined, end |-> Undefined,
     impending_departure |-> <<>>,
     events |-> [departure |-> FALSE, cancelled |-> FALSE, diverted |-> FALSE,
                 arrival |-> FALSE, filed |-> FALSE, out |-> FALSE, off |-> FALSE,
                 on |-> FALSE, in |-> FALSE, hold_start |-> FALSE, hold_end |-> FALSE],
     target_url |-> <<>>]

\* .replace(/\/+$/, '')
RECURSIVE StripTrailingSlashes(_)
StripTrailingSlashes(s) ==
    IF s # <<>> /\ s[Len(s)] = "/"
    THEN StripTrailingSlashes(SubSeq(s, 1, Len(s) - 1)) ELSE s

\* `${CFG.ALERTS_HOOK_BASE.replace(/\/+$/, '')}/${encodeURIComponent(CFG.ALERTS_TOKEN)}`
TargetUrl(c) ==
    StripTrailingSlashes(c.ALERTS_HOOK_BASE) \o <<"/">> \o encodeURIComponent(c.ALERTS_TOKEN)

-----------------------------------------------------------------------------
(* Requests, provider answers, candidate flights                           *)

\* chosen.origin / chosen.destination: absent, or an airport object with an
\* optional name and an optional location code.
NoLeg == [present |-> FALSE, name |-> Undefined, code |-> Undefined]
Leg(name, code) == [present |-> TRUE, name |-> name, code |-> code]

\* A CandidateFlight as far as the handlers read it: an element of the
\* provider's `flights` array that is an object.
Flight(ident, op, num, out, off, dep) ==
    [null |-> FALSE,
     ident |-> ident, operator_iata |-> op, flight_number |-> num,
     scheduled_out |-> out, scheduled_off |-> off, scheduled_departure |-> dep,
     origin |-> NoLeg, destination |-> NoLeg]

NoFlight == Flight(Undefined, Undefined, Undefined, Absent, Absent, Absent)

\* A malformed candidate: an element of `flights` that is null.
NullCandidate == [NoFlight EXCEPT !.null = TRUE]

\* AXM6322 operated as AK 6322, scheduled out 2025-10-22T02:00:00Z, from an
\* airport with name and code to an airport with a code but no name
F1 == [Flight(JsStr(<<"A","X","M","6","3","2","2">>), JsStr(<<"A","K">>),
              JsStr(<<"6","3","2","2">>), Iso(1761098400), Absent, Absent)
         EXCEPT !.origin = Leg(JsStr(<<"K","L"," ","I","n","t","l">>),
                               JsStr(<<"W","M","K","K">>)),
                !.destination = Leg(Undefined, JsStr(<<"W","S","S","S">>))]

\* a record without operator and flight-number fields, scheduled off
\* 2025-10-23T06:00:00Z, without origin, to an airport object holding
\* neither name nor code
F2 == [Flight(JsStr(<<"A","X","M","6","3","2","2","B">>), Undefined, Undefined,
              Absent, Iso(1761199200), Absent)
         EXCEPT !.destination = Leg(Undefined, Undefined)]

FlightLists == {<<>>, <<F2>>, <<F2, F1>>, <<F1, NullCandidate>>}

\* What one outbound call comes back with: the call throws (fetch or
\* r.text() rejects), or it returns { ok, status, json, raw }.  json is
\* "null" when the body does not parse, "list" when it carries `flights`.
Throw    == [thrown |-> TRUE,  ok |-> FALSE, json |-> "null", flights |-> <<>>]
NonOK    == [thrown |-> FALSE, ok |-> FALSE, json |-> "list", flights |-> <<F1>>]
BadJson  == [thrown |-> FALSE, ok |-> TRUE,  json |-> "null", flights |-> <<>>]
OkList(l) == [thrown |-> FALSE, ok |-> TRUE, json |-> "list", flights |-> l]

Answers == {Throw, NonOK, BadJson} \cup {OkList(l) : l \in FlightLists}

\* The alert POST has not been answered.
UnansweredAlert ==
    [thrown |-> FALSE, ok |-> FALSE, status |-> 0, json |-> FALSE, raw |-> <<>>,
     answered |-> FALSE]

\* The provider's answer to each flight query a request can issue: to the
\* calendar-date query and the epoch-window query on the request's own
\* identifier, and to a calendar-date query on another (translated) one.
\* It is fixed when the request's first call reaches the provider.  `alert`
\* is the answer to the alert POST, known when it arrives.
Providers ==
    [date : Answers, epoch : Answers, translated : Answers, alert : {UnansweredAlert}]

\* The date of the requests that are handled two at a time, and the
\* provider's behaviours for queries on that date.
PairDate == JsStr(<<"2","0","2","5","-","1","0","-","2","3">>)

PairProviders ==
    [date : {Throw, OkList(<<>>), OkList(<<F2>>)},
     epoch : {OkList(<<>>), OkList(<<F2, F1>>)},
     translated : {OkList(<<>>), OkList(<<F1>>)},
     alert : {UnansweredAlert}]

\* The provider's behaviours considered for a request.
ProvidersFor(b) == IF b.departureDate = PairDate THEN PairProviders ELSE Providers

\* How far past trim's limit the longest upstream body reaches.
MaxExcess == 200

\* An upstream body of k characters.
RawBody(k) == [i \in 1..k |-> "x"]

\* The provider's answers to the alert POST: the call throws, or it returns
\* { ok, status, json, raw }; json tells whether raw parses as JSON.
AlertAnswers ==
    { [thrown |-> TRUE, ok |-> FALSE, status |-> 0, json |-> FALSE, raw |-> <<>>,
       answered |-> TRUE] }
    \cup { [thrown |-> FALSE, ok |-> FALSE, status |-> st, json |-> FALSE,
            raw |-> RawBody(k), answered |-> TRUE] :
             st \in {400, 500},
             k \in {0, 1, DefaultN, DefaultN + 1, DefaultN + MaxExcess} }
    \cup { [thrown |-> FALSE, ok |-> TRUE, status |-> 200, json |-> j,
            raw |-> RawBody(k), answered |-> TRUE] :
             j \in BOOLEAN, k \in {2, DefaultN + 1} }

DepartureDates ==
    { JsStr(<<"2","0","2","5","-","1","0","-","2","2">>),
      JsStr(<<" ","2","0","2","5","-","1","0","-","2","2">>),
      JsStr(<<"2","0","2","5","-","0","2","-","3","0">>),
      JsStr(<<"2","0","2","5","-","1","-","5">>),
      PairDate,
      Undefined }

FlightIdents ==
    { JsStr(<<"A","K","6","3","2","2">>),
      JsStr(<<"a","k"," ","6","3","2","2">>),
      JsStr(<<"Z","Z","1","2","3">>),
      JsStr(<<"6","E","1","2","3">>),
      JsNum(<<"6","3","2","2">>),
      Unprintable,
      Undefined }

ChatBodies ==
    [flightIdent : FlightIdents, departureDate : DepartureDates,
     userRef : {Undefined}, flightno_iata : {Undefined}, flightno_icao : {Undefined}]

SubscribeBodies ==
    [flightIdent : {Undefined}, departureDate : DepartureDates,
     userRef : {JsStr(<<"u">>), Undefined},
     flightno_iata : {JsStr(<<"A","K","6","3","2","2">>), Undefined},
     flightno_icao : {JsStr(<<"A","X","M","6","3","2","2">>), Undefined}]

\* CFG: AERO_KEY is process.env.AERO_KEY (undefined when unset),
\* ALERTS_HOOK_BASE defaults to '', ALERTS_TOKEN defaults to 'change-me'.
ChatConfigs ==
    [AERO_KEY : {JsStr(<<"k">>), Undefined}, ALERTS_HOOK_BASE : {<<>>},
     ALERTS_TOKEN : {<<"c","h","a","n","g","e","-","m","e">>}]

SubscribeConfigs ==
    [AERO_KEY : {JsStr(<<"k">>), Undefined},
     ALERTS_HOOK_BASE : {<<>>, <<"h","/">>},
     ALERTS_TOKEN : {<<"c","h","a","n","g","e","-","m","e">>}]

ChatVariants      == {"index", "part_000", "part_001"}
SubscribeVariants == {"index", "part_001"}

-----------------------------------------------------------------------------
(* Locals of the handlers                                                  *)

\* const startMs = parseYmdToStartMs(departureDate)
startMs == parseYmdToStartMs(body.departureDate)

\* Math.floor((startMs - 12 * 3600 * 1000) / 1000)
startEpoch == startMs.day * 86400 - 12 * 3600

\* Math.floor((startMs + 36 * 3600 * 1000) / 1000)
endEpoch == startMs.day * 86400 + 36 * 3600

\* A mutation of baseStartSec that takes the start of the window for the
\* Selector's reference instant.
baseStartSec_WindowStart == startMs.day * 86400 - 12 * 3600

\* Math.floor(startMs / 1000)
baseStartSec == startMs.day * 86400

\* /webhook/chat: String(flightIdent).toUpperCase().replace(/\s+/g, '')
ChatIdentRaw == StripWhiteSpace(ToUpperCase(JsString(body.flightIdent)))

\* /webhook/subscribe:
\* String((flightno_icao || flightno_iata || '')).toUpperCase().replace(/\s+/g, '')
SubscribeIdentRaw ==
    StripWhiteSpace(ToUpperCase(JsString(
        IF Truthy(body.flightno_icao) THEN body.flightno_icao
        ELSE OrEmpty(body.flightno_iata))))

\* One outbound call: a flights query (fetchJson) or the alert POST
\* (postAeroAlert), with the x-apikey header it carries.
FlightsCall(url) ==
    [kind |-> "flights", url |-> url, payload |-> NoPayload, apikey |-> cfg.AERO_KEY]

AlertCall(payload) ==
    [kind |-> "alerts", url |-> NoUrl, payload |-> payload, apikey |-> cfg.AERO_KEY]

\* flights.map(f => .. f.scheduled_out ..) throws a TypeError when an element
\* of the list is null.
PickThrows(list) == \E i \in 1..Len(list) : list[i].null

\* pickBestFlight(flights, baseStartSec) || flights[0], for a non-empty list
pickBestFlight(list, base) ==
    IF PickBestIndex(list, base) = 0 THEN list[1] ELSE list[PickBestIndex(list, base)]

\* res.status(200).json({ ok: false, message }); a key the body does not
\* hold reads undefined.
Failure(message) ==
    [status |-> 200, ok |-> FALSE, message |-> message,
     flightno_iata |-> Undefined, flightno_icao |-> Undefined, flight_no |-> Undefined,
     departing_from |-> Undefined, arriving_at |-> Undefined,
     provider_status |-> Undefined, provider_body |-> Undefined]

\* x || null on JSON values
OrNull(x) == IF Truthy(x) THEN x ELSE JsNull

\* chosen.origin?.name || null
AirportName(leg) == IF leg.present THEN OrNull(leg.name) ELSE JsNull

\* x || y on JSON values
Or(x, y) == IF Truthy(x) THEN x ELSE y

\* index.js / part_001 /webhook/chat, after `chosen` is picked: the success
\* payload, or the catch block's answer when flightIdent.toUpperCase() is
\* not a function (flightIdent is not a string).
ChatPayload(ch) ==
    LET both == Truthy(ch.operator_iata) /\ Truthy(ch.flight_number)
        flightno_iata ==
            IF both THEN JsStr(ch.operator_iata.s \o ch.flight_number.s)
            ELSE JsStr(ToUpperCase(body.flightIdent.s))
    IN  IF ~both /\ body.flightIdent.t # "string"
        THEN Failure("No flights found")
        ELSE [Failure("Match") EXCEPT
                 !.ok = TRUE,
                 !.flightno_iata = flightno_iata,
                 !.flightno_icao = Or(ch.ident, flightno_iata),
                 !.departing_from = AirportName(ch.origin),
                 !.arriving_at = AirportName(ch.destination)]

\* part_000 /webhook/chat: the success payload (flight_no: chosen.ident || null)
ChatPayload000(ch) ==
    [Failure("Match") EXCEPT
       !.ok = TRUE,
       !.flight_no = OrNull(ch.ident),
       !.departing_from = AirportName(ch.origin),
       !.arriving_at = AirportName(ch.destination)]

-----------------------------------------------------------------------------
(* The handlers                                                            *)

\* No call has reached the provider yet.
Unasked  == [thrown |-> FALSE, ok |-> FALSE, json |-> "unasked", flights |-> <<>>]
NotAsked ==
    [date |-> Unasked, epoch |-> Unasked, translated |-> Unasked,
     alert |-> UnansweredAlert]

\* The locals of a handler, as one value.
Context(e, b, p, at, fl, cs, ch, rs) ==
    [endpoint |-> e, body |-> b, provider |-> p, pc |-> at, flights |-> fl,
     calls |-> cs, chosen |-> ch, responses |-> rs]

NoBody ==
    [flightIdent |-> Undefined, departureDate |-> Undefined,
     userRef |-> Undefined, flightno_iata |-> Undefined,
     flightno_icao |-> Undefined]

NoContext == Context("none", NoBody, NotAsked, "idle", <<>>, <<>>, NoFlight, <<>>)

\* The server handles one request and no other.
Alone == parked = NoContext /\ served = 1

IdleHandler ==
    /\ variant = "none" /\ endpoint = "none"
    /\ body = [flightIdent |-> Undefined, departureDate |-> Undefined,
               userRef |-> Undefined, flightno_iata |-> Undefined,
               flightno_icao |-> Undefined]
    /\ cfg = [AERO_KEY |-> Undefined, ALERTS_HOOK_BASE |-> <<>>, ALERTS_TOKEN |-> <<>>]
    /\ provider = NotAsked
    /\ pc = "idle" /\ flights = <<>> /\ calls = <<>>
    /\ chosen = NoFlight /\ responses = <<>>
    /\ Alone

IdleDate ==
    /\ dateIn = Undefined
    /\ dateOut = [done |-> "idle", ms |-> Null,
                  se |-> [ok |-> FALSE, start |-> 0, end |-> 0]]

IdleSel == selIn = [flights |-> <<>>, baseStartSec |-> 0]
           /\ selOut = [done |-> FALSE, index |-> 0]

\* A request arrives at /webhook/chat or /webhook/subscribe.
HandlerInit ==
    /\ \/ /\ endpoint = "chat"
          /\ variant \in ChatVariants
          /\ body \in ChatBodies
          /\ cfg \in ChatConfigs
       \/ /\ endpoint = "subscribe"
          /\ variant \in SubscribeVariants
          /\ body \in SubscribeBodies
          /\ cfg \in SubscribeConfigs
    /\ provider = NotAsked
    /\ pc = "received"
    /\ flights = <<>>
    /\ calls = <<>>
    /\ chosen = NoFlight
    /\ responses = <<>>

\* The answer the provider gives to a flights query: by its mode and by
\* whether it names the request's own identifier.
fetchJson(url, identRaw) ==
    IF url.mode = "epoch" THEN provider.epoch
    ELSE IF url.ident = encodeURIComponent(identRaw) THEN provider.date
    ELSE provider.translated

\* The call awaited at the current position.
InFlight == calls[Len(calls)]

\* A mutation of TakeNonEmpty that leaves `flights` as it was: the answer's
\* flight list is never taken.
TakeNonEmpty_Ignored(q, current) == current

\* if (q.ok && q.json?.flights?.length) flights = q.json.flights
\*   (index.js, part_001)
TakeNonEmpty(q, current) ==
    IF q.ok /\ q.json = "list" /\ Len(q.flights) # 0 THEN q.flights ELSE current

\* flights = (q.ok && q.json && Array.isArray(q.json.flights)) ? q.json.flights : []
\*   (part_000)
TakeArray(q) ==
    IF q.ok /\ q.json = "list" THEN q.flights ELSE <<>>

Taken(q) == IF variant = "part_000" THEN TakeArray(q) ELSE TakeNonEmpty(q, flights)

\* A mutation of Respond that sends the body twice.
Respond_Twice(r) == responses' = responses \o <<r, r>>

Respond(r) == responses' = Append(responses, r)

\* A mutation of Issue that starts the call twice without awaiting the first.
Issue_Twice(call) == calls' = calls \o <<call, call>>

\* await fetch(..): the call goes out and the handler waits for its answer.
Issue(call) == calls' = Append(calls, call)

\* /webhook/chat from the request to the first await: validation, then
\* the calendar-date query is issued.
ChatReceive ==
    /\ endpoint = "chat" /\ pc = "received"
    /\ IF ~Truthy(body.flightIdent) \/ ~Truthy(body.departureDate)
       THEN Respond(Failure("Invalid Date")) /\ pc' = "done" /\ UNCHANGED calls
       ELSE IF startMs.null
       THEN Respond(Failure("Invalid Date")) /\ pc' = "done" /\ UNCHANGED calls
       ELSE IF StringThrows(body.flightIdent)
       THEN \* const identRaw = String(flightIdent).. throws before `try`: the
            \* async handler rejects and nothing is sent
            pc' = "rejected" /\ UNCHANGED <<calls, responses>>
       ELSE /\ Issue(FlightsCall(buildFlightsUrlDate(ChatIdentRaw, body.departureDate)))
            /\ pc' = "await1"
            /\ UNCHANGED responses
    /\ IF pc' = "await1" THEN provider' \in ProvidersFor(body) ELSE UNCHANGED provider
    /\ UNCHANGED <<variant, endpoint, body, cfg, flights, chosen>>
    /\ UNCHANGED <<dateVars, selVars, serverVars>>

\* A mutation of ChatCatch that answers like /webhook/subscribe's catch block.
ChatCatch_InternalError ==
    /\ responses' = Append(responses, Failure("Internal error"))
    /\ pc' = "done"
    /\ UNCHANGED <<flights, calls, chosen>>

\* /webhook/chat, the catch block: { ok: false, message: 'No flights found' }
ChatCatch ==
    /\ Respond(Failure("No flights found"))
    /\ pc' = "done"
    /\ UNCHANGED <<flights, calls, chosen>>

\* /webhook/chat from `if (flights.length === 0) return ..No flights found`
\* to the response.
ChatFinish(fl) ==
    /\ flights' = fl
    /\ pc' = "done"
    /\ UNCHANGED calls
    /\ IF Len(fl) = 0
       THEN Respond(Failure("No flights found")) /\ UNCHANGED chosen
       ELSE IF PickThrows(fl)
       THEN Respond(Failure("No flights found")) /\ UNCHANGED chosen
       ELSE /\ chosen' = pickBestFlight(fl, baseStartSec)
            /\ Respond(IF variant = "part_000"
                       THEN ChatPayload000(pickBestFlight(fl, baseStartSec))
                       ELSE ChatPayload(pickBestFlight(fl, baseStartSec)))

\* /webhook/chat resumes with the answer to the calendar-date query.
ChatAnswer1 ==
    /\ endpoint = "chat" /\ pc = "await1"
    /\ LET q1 == fetchJson(InFlight.url, ChatIdentRaw)
       IN  IF q1.thrown THEN ChatCatch
           ELSE IF Len(Taken(q1)) = 0
           THEN /\ Issue(FlightsCall(buildFlightsUrlEpoch(ChatIdentRaw, startEpoch, endEpoch)))
                /\ pc' = "await2"
                /\ flights' = Taken(q1)
                /\ UNCHANGED <<chosen, responses>>
           ELSE ChatFinish(Taken(q1))
    /\ UNCHANGED <<variant, endpoint, body, cfg, provider>>
    /\ UNCHANGED <<dateVars, selVars, serverVars>>

\* /webhook/chat resumes with the answer to the epoch-window query; part_000
\* goes on to the translated query when the identifier maps.
ChatAnswer2 ==
    /\ endpoint = "chat" /\ pc = "await2"
    /\ LET q2 == fetchJson(InFlight.url, ChatIdentRaw)
       IN  IF q2.thrown THEN ChatCatch
           ELSE IF variant = "part_000" /\ Len(Taken(q2)) = 0
                   /\ IcaoIdent(ChatIdentRaw) # <<>>
           THEN /\ Issue(FlightsCall(buildFlightsUrlDate(IcaoIdent(ChatIdentRaw),
                                                         body.departureDate)))
                /\ pc' = "await3"
                /\ flights' = Taken(q2)
                /\ UNCHANGED <<chosen, responses>>
           ELSE ChatFinish(Taken(q2))
    /\ UNCHANGED <<variant, endpoint, body, cfg, provider>>
    /\ UNCHANGED <<dateVars, selVars, serverVars>>

\* part_000's /webhook/chat resumes with the answer to the translated query.
ChatAnswer3 ==
    /\ endpoint = "chat" /\ pc = "await3"
    /\ LET q3 == fetchJson(InFlight.url, ChatIdentRaw)
       IN  IF q3.thrown THEN ChatCatch ELSE ChatFinish(Taken(q3))
    /\ UNCHANGED <<variant, endpoint, body, cfg, provider>>
    /\ UNCHANGED <<dateVars, selVars, serverVars>>

\* /webhook/subscribe from the request to the first await.
SubscribeReceive ==
    /\ endpoint = "subscribe" /\ pc = "received"
    /\ IF ~Truthy(body.userRef) \/ ~Truthy(body.departureDate)
       THEN Respond(Failure("Missing userRef or departureDate"))
            /\ pc' = "done" /\ UNCHANGED calls
       ELSE IF ~Truthy(cfg.AERO_KEY)
       THEN Respond(Failure("Server missing AERO_KEY"))
            /\ pc' = "done" /\ UNCHANGED calls
       ELSE IF cfg.ALERTS_HOOK_BASE = <<>> \/ cfg.ALERTS_TOKEN = <<>>
       THEN Respond(Failure("Server missing alerts hook config"))
            /\ pc' = "done" /\ UNCHANGED calls
       ELSE IF startMs.null
       THEN Respond(Failure("Invalid Date")) /\ pc' = "done" /\ UNCHANGED calls
       ELSE /\ Issue(FlightsCall(buildFlightsUrlDate(SubscribeIdentRaw, body.departureDate)))
            /\ pc' = "await1"
            /\ UNCHANGED responses
    /\ IF pc' = "await1" THEN provider' \in ProvidersFor(body) ELSE UNCHANGED provider
    /\ UNCHANGED <<variant, endpoint, body, cfg, flights, chosen>>
    /\ UNCHANGED <<dateVars, selVars, serverVars>>

\* /webhook/subscribe, the catch block: { ok: false, message: 'Internal error' }
SubscribeCatch ==
    /\ Respond(Failure("Internal error"))
    /\ pc' = "done"
    /\ UNCHANGED <<flights, calls, chosen>>

\* A mutation of SubscribeResolve without the `flights.length === 0` return:
\* the alert POST goes out although no flight was resolved.
SubscribeResolve_PostsUnresolved(fl) ==
    /\ flights' = fl
    /\ IF PickThrows(fl)
       THEN /\ Respond(Failure("Internal error"))
            /\ pc' = "done"
            /\ UNCHANGED <<calls, chosen>>
       ELSE LET ch == IF Len(fl) = 0 THEN NoFlight
                      ELSE pickBestFlight(fl, baseStartSec)
                flightnoIata ==
                    IF Truthy(ch.operator_iata) /\ Truthy(ch.flight_number)
                    THEN JsStr(ch.operator_iata.s \o ch.flight_number.s)
                    ELSE Or(body.flightno_iata, JsStr(SubscribeIdentRaw))
                flightnoIcao == Or(ch.ident, flightnoIata)
            IN  /\ chosen' = ch
                /\ Issue(AlertCall(buildAlertPayload(flightnoIcao, body.departureDate,
                                                     TargetUrl(cfg))))
                /\ pc' = "awaitAlert"
                /\ UNCHANGED responses

\* /webhook/subscribe from `if (flights.length === 0)` to the alert POST.
SubscribeResolve(fl) ==
    /\ flights' = fl
    /\ IF Len(fl) = 0
       THEN /\ Respond(Failure("No flights found"))
            /\ pc' = "done"
            /\ UNCHANGED <<calls, chosen>>
       ELSE IF PickThrows(fl)
       THEN /\ Respond(Failure("Internal error"))
            /\ pc' = "done"
            /\ UNCHANGED <<calls, chosen>>
       ELSE LET ch == pickBestFlight(fl, baseStartSec)
                flightnoIata ==
                    IF Truthy(ch.operator_iata) /\ Truthy(ch.flight_number)
                    THEN JsStr(ch.operator_iata.s \o ch.flight_number.s)
                    ELSE Or(body.flightno_iata, JsStr(SubscribeIdentRaw))
                flightnoIcao == Or(ch.ident, flightnoIata)
            IN  /\ chosen' = ch
                /\ Issue(AlertCall(buildAlertPayload(flightnoIcao, body.departureDate,
                                                     TargetUrl(cfg))))
                /\ pc' = "awaitAlert"
                /\ UNCHANGED responses

\* /webhook/subscribe resumes with the answer to the calendar-date query.
SubscribeAnswer1 ==
    /\ endpoint = "subscribe" /\ pc = "await1"
    /\ LET q1 == fetchJson(InFlight.url, SubscribeIdentRaw)
       IN  IF q1.thrown THEN SubscribeCatch
           ELSE IF Len(TakeNonEmpty(q1, <<>>)) = 0
           THEN /\ Issue(FlightsCall(buildFlightsUrlEpoch(SubscribeIdentRaw,
                                                          startEpoch, endEpoch)))
                /\ pc' = "await2"
                /\ flights' = <<>>
                /\ UNCHANGED <<chosen, responses>>
           ELSE SubscribeResolve(TakeNonEmpty(q1, <<>>))
    /\ UNCHANGED <<variant, endpoint, body, cfg, provider>>
    /\ UNCHANGED <<dateVars, selVars, serverVars>>

\* /webhook/subscribe resumes with the answer to the epoch-window query.
SubscribeAnswer2 ==
    /\ endpoint = "subscribe" /\ pc = "await2"
    /\ LET q2 == fetchJson(InFlight.url, SubscribeIdentRaw)
       IN  IF q2.thrown THEN SubscribeCatch
           ELSE SubscribeResolve(TakeNonEmpty(q2, flights))
    /\ UNCHANGED <<variant, endpoint, body, cfg, provider>>
    /\ UNCHANGED <<dateVars, selVars, serverVars>>

\* The subscribe response fields derived from `chosen`, recomputed.
SubscribeFlightnoIata ==
    IF Truthy(chosen.operator_iata) /\ Truthy(chosen.flight_number)
    THEN JsStr(chosen.operator_iata.s \o chosen.flight_number.s)
    ELSE Or(body.flightno_iata, JsStr(SubscribeIdentRaw))

\* `Provider error (${resp.status})`
ProviderErrorMessage(resp) == "Provider error (" \o ToString(resp.status) \o ")"

\* /webhook/subscribe, if (!resp.ok): index.js passes the upstream status and
\* trim(resp.raw) on, part_001 answers with the message alone.
ProviderError(resp) ==
    IF variant = "index"
    THEN [Failure(ProviderErrorMessage(resp)) EXCEPT
            !.provider_status = JsNum(Decimal(resp.status)),
            !.provider_body = JsStr(trim(resp.raw, DefaultN))]
    ELSE Failure(ProviderErrorMessage(resp))

\* /webhook/subscribe, the success payload; index.js adds provider_status and
\* provider_body: resp.json ?? trim(resp.raw)
SuccessPayload(resp) ==
    LET subscribed ==
            [Failure("Subscription confirmed") EXCEPT
               !.ok = TRUE,
               !.flightno_iata = SubscribeFlightnoIata,
               !.flightno_icao = Or(chosen.ident, SubscribeFlightnoIata)]
    IN  IF variant = "index"
        THEN [subscribed EXCEPT
                !.provider_status = JsNum(Decimal(resp.status)),
                !.provider_body = JsStr(IF resp.json THEN resp.raw
                                        ELSE trim(resp.raw, DefaultN))]
        ELSE subscribed

\* /webhook/subscribe resumes with the provider's answer to the alert POST.
SubscribeAlertAnswer ==
    /\ endpoint = "subscribe" /\ pc = "awaitAlert"
    /\ \E resp \in AlertAnswers :
         /\ provider' = [provider EXCEPT !.alert = resp]
         /\ IF resp.thrown THEN SubscribeCatch
            ELSE /\ pc' = "done"
                 /\ UNCHANGED <<flights, calls, chosen>>
                 /\ Respond(IF ~resp.ok THEN ProviderError(resp)
                            ELSE SuccessPayload(resp))
    /\ UNCHANGED <<variant, endpoint, body, cfg>>
    /\ UNCHANGED <<dateVars, selVars, serverVars>>

Init == HandlerInit /\ IdleDate /\ IdleSel /\ Alone

Next ==
    \/ ChatReceive
    \/ ChatAnswer1
    \/ ChatAnswer2
    \/ ChatAnswer3
    \/ SubscribeReceive
    \/ SubscribeAnswer1
    \/ SubscribeAnswer2
    \/ SubscribeAlertAnswer

Spec == Init /\ [][Next]_vars

-----------------------------------------------------------------------------
(* Two requests in progress at a time                                      *)

\* Number of requests the server accepts in all.
MaxRequests == 3

PairBodies ==
    [flightIdent : {JsStr(<<"A","K","6","3","2","2">>), JsStr(<<"Z","Z","1","2","3">>)},
     departureDate : {PairDate},
     userRef : {Undefined}, flightno_iata : {Undefined}, flightno_icao : {Undefined}]

\* The locals of a /webhook/chat handler that is about to start.
Fresh(b) == Context("chat", b, NotAsked, "received", <<>>, <<>>, NoFlight, <<>>)

\* The locals of the handler that runs.
Running == Context(endpoint, body, provider, pc, flights, calls, chosen, responses)

\* The handler with locals c runs next.
Resume(c) ==
    /\ endpoint' = c.endpoint /\ body' = c.body /\ provider' = c.provider
    /\ pc' = c.pc /\ flights' = c.flights /\ calls' = c.calls
    /\ chosen' = c.chosen /\ responses' = c.responses

\* Two requests have arrived at a server with its configuration complete.
PairInit ==
    /\ variant \in ChatVariants
    /\ cfg = [AERO_KEY |-> JsStr(<<"k">>), ALERTS_HOOK_BASE |-> <<"h","/">>,
              ALERTS_TOKEN |-> <<"c","h","a","n","g","e","-","m","e">>]
    /\ endpoint = "chat" /\ body \in PairBodies
    /\ provider = NotAsked /\ pc = "received"
    /\ flights = <<>> /\ calls = <<>> /\ chosen = NoFlight /\ responses = <<>>
    /\ parked \in {Fresh(b) : b \in PairBodies}
    /\ served = 2
    /\ IdleDate /\ IdleSel

\* A mutation of Switch in which `flights` is a variable of the module, not
\* of the handler: it stays as the suspended handler left it.
Switch_SharedFlights ==
    /\ parked # NoContext
    /\ parked' = Running
    /\ endpoint' = parked.endpoint /\ body' = parked.body
    /\ provider' = parked.provider /\ pc' = parked.pc
    /\ calls' = parked.calls /\ chosen' = parked.chosen
    /\ responses' = parked.responses
    /\ UNCHANGED <<flights, variant, cfg, served, dateVars, selVars>>

\* The event loop: the running handler is suspended at its await (or has
\* finished) and the other handler, with its own locals, runs on.
Switch ==
    /\ parked # NoContext
    /\ parked' = Running
    /\ Resume(parked)
    /\ UNCHANGED <<variant, cfg, served, dateVars, selVars>>

\* The running handler has ended and the server accepts the next request.
Accept ==
    /\ pc \in {"done", "rejected"}
    /\ served < MaxRequests
    /\ served' = served + 1
    /\ \E b \in PairBodies : Resume(Fresh(b))
    /\ UNCHANGED <<variant, cfg, parked, dateVars, selVars>>

PairNext ==
    \/ ChatReceive
    \/ ChatAnswer1
    \/ ChatAnswer2
    \/ ChatAnswer3
    \/ Switch
    \/ Accept

SpecPair == PairInit /\ [][PairNext]_vars

-----------------------------------------------------------------------------
(* The Date Normalizer on its own                                          *)

\* Longest run of white space put before and after a date string.
MaxPad == 1

TwoDigits(n) == <<DigitChar(n \div 10), DigitChar(n % 10)>>

FourDigits(n) == TwoDigits(n \div 100) \o TwoDigits(n % 100)

\* "YYYY-MM-DD" for the numbers y, m, d
YmdText(y, m, d) == FourDigits(y) \o <<"-">> \o TwoDigits(m) \o <<"-">> \o TwoDigits(d)

Spaces(k) == [i \in 1..k |-> " "]

InputYears  == {0, 50, 99, 100, 1900, 1970, 2000, 2024, 2025, 9999}
InputMonths == 0..13
InputDays   == {0, 1, 28, 29, 30, 31, 32}

\* Strings that are not of the shape YYYY-MM-DD even after trimming.
WrongShapes ==
    { <<>>,
      <<"2","0","2","5","-","1","-","5">>,
      <<"2","0","2","5","1","0","2","2">>,
      <<"2","0","2","5","/","1","0","/","2","2">>,
      <<"2","5","-","1","0","-","2","2">>,
      <<"1","2","0","2","5","-","1","0","-","2","2">>,
      <<"2","0","2","5","-","1","0","-","2","2","x">>,
      <<"x","2","0","2","5","-","1","0","-","2","2">>,
      <<"2","0","2","5","-","1","0","-","2","a">>,
      <<"2","0","2","5","-","1","0","-","2","2","T","0","0">>,
      <<"2","0","2","5"," ","1","0"," ","2","2">>,
      <<"2","0","2","5","-","1","0","\t","-","2","2">> }

DateInputs ==
    {Undefined}
    \cup { JsStr(Spaces(a) \o w \o Spaces(b)) :
             w \in WrongShapes, a \in 0..MaxPad, b \in 0..MaxPad }
    \cup { JsStr(<<"\t">> \o YmdText(2025, 10, 22)) }
    \cup { JsStr(Spaces(a) \o YmdText(y, m, d) \o Spaces(b)) :
             y \in InputYears, m \in InputMonths, d \in InputDays,
             a \in 0..MaxPad, b \in 0..MaxPad }

DateInit ==
    /\ IdleHandler /\ IdleSel
    /\ dateIn \in DateInputs
    /\ dateOut = [done |-> "no", ms |-> Null, se |-> [ok |-> FALSE, start |-> 0, end |-> 0]]

\* parseYmdToStartMs(dateIn)
Normalize ==
    /\ dateOut.done = "no"
    /\ dateOut' = [dateOut EXCEPT !.done = "parseYmdToStartMs",
                                  !.ms = parseYmdToStartMs(dateIn)]
    /\ UNCHANGED <<dateIn, handlerVars, selVars, serverVars>>

\* parseYmdToStartEnd(dateIn), the helper of the single-query draft
NormalizeStartEnd ==
    /\ dateOut.done = "no"
    /\ dateOut' = [dateOut EXCEPT !.done = "parseYmdToStartEnd",
                                  !.se = parseYmdToStartEnd(dateIn)]
    /\ UNCHANGED <<dateIn, handlerVars, selVars, serverVars>>

DateNext == Normalize \/ NormalizeStartEnd

SpecDate == DateInit /\ [][DateNext]_vars

-----------------------------------------------------------------------------
(* The Flight Selector on its own                                          *)

\* Longest candidate list handed to the Selector.
MaxFlights == 3

\* Candidates that differ in which timestamp fields they carry and in the
\* instants these name (seconds since the epoch; 0 is 1970-01-01T00:00:00Z).
SelectorFlights ==
    { Flight(Undefined, Undefined, Undefined, out, off, dep) :
        out \in {Absent, Iso(0), Iso(3600), Iso(10800)},
        off \in {Absent, Iso(3600)},
        dep \in {Absent, Iso(10800)} }

RECURSIVE ListsUpTo(_, _)
ListsUpTo(S, n) ==
    IF n = 0 THEN {<<>>}
    ELSE ListsUpTo(S, n - 1)
         \cup { Append(l, x) : l \in {k \in ListsUpTo(S, n - 1) : Len(k) = n - 1}, x \in S }

\* Reference instants: the midnights of 1970-01-01 and 1970-01-02, and an
\* instant halfway between two of the candidates' timestamps.
SelectorBases == {0, 7200, 86400}

SelInit ==
    /\ IdleHandler /\ IdleDate
    /\ selIn \in [flights : ListsUpTo(SelectorFlights, MaxFlights),
                  baseStartSec : SelectorBases]
    /\ selOut = [done |-> FALSE, index |-> 0]

\* pickBestFlight(selIn.flights, selIn.baseStartSec)
Pick ==
    /\ ~selOut.done
    /\ selOut' = [done |-> TRUE,
                  index |-> PickBestIndex(selIn.flights, selIn.baseStartSec)]
    /\ UNCHANGED <<selIn, handlerVars, dateVars, serverVars>>

SelNext == Pick

SpecSel == SelInit /\ [][SelNext]_vars

-----------------------------------------------------------------------------
(* Vocabulary of the properties                                            *)

Done == pc = "done"

\* The response of a finished request.
Response == responses[Len(responses)]

Found == Done /\ responses # <<>> /\ Response.ok

NotFound == Done /\ responses # <<>> /\ Response = Failure("No flights found")

\* The request passed validation: its first query went out.
Resolving == Len(calls) >= 1 /\ calls[1].kind = "flights"

\* An answer that carries a non-empty flight list with a success status.
NonEmptyAnswer(a) == ~a.thrown /\ a.ok /\ a.json = "list" /\ a.flights # <<>>

\* An answer that came back but yields no flights: a non-success status, an
\* unparsable body, or a success with zero flights.
EmptyAnswer(a) ==
    /\ ~a.thrown
    /\ a.json # "unasked"
    /\ (~a.ok \/ a.json = "null" \/ a.flights = <<>>)

Elements(l) == {l[i] : i \in 1..Len(l)}

\* The normalized identifier of the request.
IdentRaw == IF endpoint = "chat" THEN ChatIdentRaw ELSE SubscribeIdentRaw

\* The keys of the AirlineCodeMap.
AirlineCodeMapKeys ==
    { <<"A","K">>, <<"M","H">>, <<"S","Q">>, <<"T","R">>, <<"O","D">>,
      <<"Q","Z">>, <<"F","D">>, <<"6","E">>, <<"G","A">> }

Letters == {UpperCaseLetters[i] : i \in 1..26} \cup {LowerCaseLetters[i] : i \in 1..26}

\* "two letters followed by 1-5 digits" with a prefix the map knows
Translatable(ident) ==
    /\ Len(ident) \in 3..7
    /\ ident[1] \in Letters /\ ident[2] \in Letters
    /\ \A i \in 3..Len(ident) : ident[i] \in Digits
    /\ SubSeq(ident, 1, 2) \in AirlineCodeMapKeys

\* The calendar: does year y, month m, day d exist?
IsLeapYear(y) == (y % 4 = 0 /\ y % 100 # 0) \/ y % 400 = 0

DaysInMonth(y, m) ==
    IF m = 2 THEN (IF IsLeapYear(y) THEN 29 ELSE 28)
    ELSE IF m \in {4, 6, 9, 11} THEN 30 ELSE 31

ExistingDate(y, m, d) == m \in 1..12 /\ d \in 1..DaysInMonth(y, m)

\* The strict pattern: four digits, "-", two digits, "-", two digits.
StrictShape(t) ==
    /\ Len(t) = 10
    /\ \A i \in {1, 2, 3, 4, 6, 7, 9, 10} : t[i] \in Digits
    /\ t[5] = "-" /\ t[8] = "-"

YearOf(t)  == ToNumber(SubSeq(t, 1, 4))
MonthOf(t) == ToNumber(SubSeq(t, 6, 7))
DayOf(t)   == ToNumber(SubSeq(t, 9, 10))

\* t is a well-formed string naming a date of the calendar.
ValidYmd(t) == StrictShape(t) /\ ExistingDate(YearOf(t), MonthOf(t), DayOf(t))

\* The request carries every field its operation requires.
HasRequiredFields ==
    IF endpoint = "chat"
    THEN Truthy(body.flightIdent) /\ Truthy(body.departureDate)
    ELSE Truthy(body.userRef) /\ Truthy(body.departureDate)

-----------------------------------------------------------------------------
(* C1..C10                                                                 *)

\* C1: in /webhook/chat, when the calendar-date query throws and the
\* epoch-window query would return a non-empty flight list, the second query
\* is still issued and the outcome is FOUND.
C1_TransportFailureDoesNotAbort ==
    (endpoint = "chat" /\ Done /\ Resolving
       /\ provider.date.thrown /\ NonEmptyAnswer(provider.epoch))
    => (/\ Len(calls) >= 2
        /\ calls[2].url.mode = "epoch"
        /\ Found)

\* C2: for every valid-date request, when the calendar-date query comes
\* back without flights and the epoch-window query returns a non-empty list,
\* the outcome is FOUND and the selected flight is one of the epoch-window
\* result.
C2_EpochFallbackFound ==
    (endpoint = "chat" /\ Done /\ Resolving
       /\ EmptyAnswer(provider.date) /\ NonEmptyAnswer(provider.epoch))
    => (Found /\ chosen \in Elements(provider.epoch.flights))

\* C3: for a translatable identifier, when both queries on the original
\* identifier come back without flights and the provider has a non-empty
\* list for the translated identifier, the outcome is FOUND with a flight of
\* the translated query's result.
C3_TranslationFound ==
    (endpoint = "chat" /\ Done /\ Resolving /\ Translatable(ChatIdentRaw)
       /\ EmptyAnswer(provider.date) /\ EmptyAnswer(provider.epoch)
       /\ NonEmptyAnswer(provider.translated))
    => (Found /\ chosen \in Elements(provider.translated.flights))

\* C4: for an identifier that is not translatable, when both direct queries
\* come back without flights the outcome is NOT_FOUND, exactly two provider
\* calls were made and none of them is a translated query.
C4_NoTranslationForUnmapped ==
    (Done /\ Resolving /\ ~Translatable(IdentRaw)
       /\ EmptyAnswer(provider.date) /\ EmptyAnswer(provider.epoch))
    => (/\ NotFound
        /\ Len(calls) = 2
        /\ \A i \in 1..Len(calls) :
             calls[i].kind = "flights"
             /\ calls[i].url.ident = encodeURIComponent(IdentRaw))

\* A finished part_000 chat request for ZZ123 whose two queries came back
\* empty.
C4_Witness ==
    /\ endpoint = "chat" /\ variant = "part_000" /\ Done /\ Resolving
    /\ ChatIdentRaw = <<"Z","Z","1","2","3">>
    /\ EmptyAnswer(provider.date) /\ EmptyAnswer(provider.epoch)
    /\ NonEmptyAnswer(provider.translated)
    /\ NotFound /\ Len(calls) = 2

\* The answers to the queries a request issued, in order.
AttemptedAnswers == [i \in 1..Len(calls) |-> fetchJson(calls[i].url, IdentRaw)]

\* C5: for every /webhook/chat request with a valid date, the outcome is
\* FOUND, carrying the flight closest to the requested date's UTC midnight,
\* whenever an attempted strategy produced a non-empty list, and NOT_FOUND
\* exactly when every attempted strategy produced no flights, whatever the
\* shape of the identifier and of the candidates.
C5_FoundIffSomeStrategyNonEmpty ==
    (endpoint = "chat" /\ Done /\ Resolving)
    => LET hit == {i \in 1..Len(calls) : NonEmptyAnswer(AttemptedAnswers[i])}
       IN  /\ hit # {} =>
                \E i \in hit :
                  /\ Found
                  /\ chosen \in Elements(AttemptedAnswers[i].flights)
                  /\ \A f \in Elements(AttemptedAnswers[i].flights) :
                       Score(chosen, baseStartSec) <= Score(f, baseStartSec)
           /\ (hit = {} <=> NotFound)

\* The date string of the request, as the claim reads it: not a string, of
\* the wrong shape, or naming no date of the calendar.
InvalidDateStrict ==
    \/ body.departureDate.t # "string"
    \/ ~ValidYmd(body.departureDate.s)

InvalidDateTrimmed ==
    \/ body.departureDate.t # "string"
    \/ ~ValidYmd(Trim(body.departureDate.s))

Normalized == dateOut.done \in {"parseYmdToStartMs", "parseYmdToStartEnd"}

Rejected ==
    IF dateOut.done = "parseYmdToStartMs" THEN dateOut.ms.null ELSE ~dateOut.se.ok

\* The day number the normalizer returned.
AcceptedDay ==
    IF dateOut.done = "parseYmdToStartMs" THEN dateOut.ms.day ELSE dateOut.se.start

\* C7: every string YYYY-MM-DD naming an existing date, of any year
\* 0000-9999, is accepted, and the UTC year, month and day of the instant
\* returned are the input's.
C7_AcceptsEveryExistingDate ==
    (Normalized /\ dateIn.t = "string" /\ ValidYmd(dateIn.s))
    => (/\ ~Rejected
        /\ UTCFields(AcceptedDay) =
             [year |-> YearOf(dateIn.s), month |-> MonthOf(dateIn.s),
              date |-> DayOf(dateIn.s)])

HasTimestamp(f) ==
    f.scheduled_out.present \/ f.scheduled_off.present \/ f.scheduled_departure.present

Distance(f, base) == Abs(FirstTimestamp(f).sec - base)

\* f's score is at most g's, a candidate without timestamp being maximally
\* distant.
ScoreAtMost(f, g, base) ==
    IF ~HasTimestamp(g) THEN TRUE
    ELSE IF ~HasTimestamp(f) THEN FALSE
    ELSE Distance(f, base) <= Distance(g, base)

\* C9: for every non-empty list and every reference instant the Selector
\* returns a candidate whose distance in seconds from the reference is at
\* most every other candidate's, and the earliest of those in the list.
C9_SelectorPicksClosestFirst ==
    (selOut.done /\ selIn.flights # <<>>)
    => LET l == selIn.flights
           b == selIn.baseStartSec
           i == selOut.index
       IN  /\ i \in 1..Len(l)
           /\ \A j \in 1..Len(l) : ScoreAtMost(l[i], l[j], b)
           /\ \A j \in 1..(i - 1) : ~ScoreAtMost(l[j], l[i], b)

\* C10: every alert-registration payload sent to the provider has the
\* offsets 1, 3, 5, the departure, cancelled and diverted events on and every
\* other event off.
C10_AlertPayloadFixed ==
    \A i \in 1..Len(calls) :
      calls[i].kind = "alerts" =>
        /\ calls[i].payload.impending_departure = <<1, 3, 5>>
        /\ calls[i].payload.events =
             [departure |-> TRUE, cancelled |-> TRUE, diverted |-> TRUE,
              arrival |-> FALSE, filed |-> FALSE, out |-> FALSE, off |-> FALSE,
              on |-> FALSE, in |-> FALSE, hold_start |-> FALSE, hold_end |-> FALSE]

\* An alert POST has been sent.
C10_Witness ==
    /\ endpoint = "subscribe"
    /\ \E i \in 1..Len(calls) : calls[i].kind = "alerts" /\ calls[i].payload.ident # Undefined

-----------------------------------------------------------------------------
(* C11..C20                                                                *)

\* The fields of a response body that describe a flight.
FlightFields(r) ==
    {r.flightno_iata, r.flightno_icao, r.flight_no, r.departing_from, r.arriving_at}

\* C11: a handler sends at most one response, it has sent exactly one when
\* it is finished, and that response is either a success carrying flight
\* fields or a failure carrying none.
C11_ExactlyOneOutcome ==
    /\ Len(responses) <= 1
    /\ (Done <=> Len(responses) = 1)
    /\ Done => IF Response.ok
               THEN chosen # NoFlight /\ FlightFields(Response) # {Undefined}
               ELSE FlightFields(Response) = {Undefined}

\* A subscription was confirmed.
C11_Witness ==
    /\ endpoint = "subscribe" /\ Done /\ Len(responses) = 1
    /\ Response.ok /\ Response.flightno_icao # Undefined

\* C12: every response of /webhook/chat has status 200, and every failure
\* of /webhook/chat has the message 'Invalid Date' or 'No flights found'.
C12_ChatAlways200TypedFailure ==
    endpoint = "chat" =>
      \A i \in 1..Len(responses) :
        /\ responses[i].status = 200
        /\ ~responses[i].ok =>
             responses[i].message \in {"Invalid Date", "No flights found"}

\* A chat request whose first query threw was answered by the catch block.
C12_Witness ==
    /\ endpoint = "chat" /\ Done /\ Resolving
    /\ provider.date.thrown
    /\ Response = Failure("No flights found")

\* The handler waits for the answer to its latest call.
Awaiting == pc \in {"await1", "await2", "await3", "awaitAlert"}

\* C13: a request makes at most three outbound calls, and one step of the
\* handler (from the request, or from the arrival of the awaited answer, to
\* the next await or the response) starts at most one call, after which the
\* handler waits for it: no call starts while another is unanswered.
C13_AtMostThreeSequentialCalls ==
    /\ [](Len(calls) <= 3)
    /\ [](Awaiting => Len(calls) >= 1)
    /\ [][/\ Len(calls') <= Len(calls) + 1
          /\ Len(calls') > Len(calls) =>
               /\ SubSeq(calls', 1, Len(calls)) = calls
               /\ Awaiting']_vars

\* A request that made three calls is finished.
C13_Witness == Done /\ Len(calls) = 3

\* C15: without a provider API key in the configuration no outbound call
\* is issued.
C15_NoCallWithoutKey == ~Truthy(cfg.AERO_KEY) => calls = <<>>

\* The provider answered the alert POST with a non-success status.
AlertRefused == provider.alert.answered /\ ~provider.alert.thrown /\ ~provider.alert.ok

\* Length of trim's suffix " ~[+<k> chars]" for an excess of k characters.
SuffixLen(k) == 11 + Len(Decimal(k))

\* e is an excerpt of raw: raw itself when it has at most DefaultN
\* characters, else its first DefaultN characters and the suffix.
BoundedExcerpt(e, raw) ==
    /\ e.t = "string"
    /\ IF Len(raw) <= DefaultN THEN e.s = raw
       ELSE /\ SubSeq(e.s, 1, DefaultN) = SubSeq(raw, 1, DefaultN)
            /\ Len(e.s) = DefaultN + SuffixLen(Len(raw) - DefaultN)

\* C14: when the provider refuses the alert POST, /webhook/subscribe answers
\* ok: false with a provider error that carries the upstream status and an
\* excerpt of the upstream body of at most DefaultN characters plus the
\* suffix.
C14_ProviderErrorBoundedExcerpt ==
    (endpoint = "subscribe" /\ Done /\ AlertRefused)
    => (/\ ~Response.ok
        /\ Response.message = ProviderErrorMessage(provider.alert)
        /\ Response.provider_status = JsNum(Decimal(provider.alert.status))
        /\ BoundedExcerpt(Response.provider_body, provider.alert.raw))

\* Flight resolution of /webhook/chat in version v, as a function of the
\* normalized identifier and the provider's behaviour: the flight queries
\* issued, in order, and the result (the catch block answers not-found).
ChatResolution(v, identRaw) ==
    LET take(q, cur) == IF v = "part_000" THEN TakeArray(q) ELSE TakeNonEmpty(q, cur)
        url1 == buildFlightsUrlDate(identRaw, body.departureDate)
        url2 == buildFlightsUrlEpoch(identRaw, startEpoch, endEpoch)
        url3 == buildFlightsUrlDate(IcaoIdent(identRaw), body.departureDate)
        q1 == fetchJson(url1, identRaw)
        q2 == fetchJson(url2, identRaw)
        q3 == fetchJson(url3, identRaw)
        f1 == take(q1, <<>>)
        f2 == take(q2, f1)
        f3 == take(q3, f2)
        notFound(qs) == [queries |-> qs, outcome |-> "not-found", chosen |-> NoFlight]
        finish(qs, fl) ==
            IF fl = <<>> \/ PickThrows(fl) THEN notFound(qs)
            ELSE [queries |-> qs, outcome |-> "found",
                  chosen |-> pickBestFlight(fl, baseStartSec)]
    IN  IF q1.thrown THEN notFound(<<url1>>)
        ELSE IF f1 # <<>> THEN finish(<<url1>>, f1)
        ELSE IF q2.thrown THEN notFound(<<url1, url2>>)
        ELSE IF v = "part_000" /\ f2 = <<>> /\ IcaoIdent(identRaw) # <<>>
        THEN IF q3.thrown THEN notFound(<<url1, url2, url3>>)
             ELSE finish(<<url1, url2, url3>>, f3)
        ELSE finish(<<url1, url2>>, f2)

\* The flight queries a request has issued, in order.
RECURSIVE FlightQueries(_)
FlightQueries(cs) ==
    IF cs = <<>> THEN <<>>
    ELSE (IF Head(cs).kind = "flights" THEN <<Head(cs).url>> ELSE <<>>)
         \o FlightQueries(Tail(cs))

\* Flight resolution has ended: a flight is selected, or the request is
\* answered.
Resolved == Resolving /\ pc \in {"awaitAlert", "done"}

\* What flight resolution did in the request at hand.
ObservedResolution ==
    [queries |-> FlightQueries(calls),
     outcome |-> IF chosen # NoFlight THEN "found"
                 ELSE IF Response = Failure("No flights found") THEN "not-found"
                 ELSE "error",
     chosen |-> chosen]

\* C16: flight resolution in /webhook/subscribe issues the flight queries
\* and reaches the result that /webhook/chat does for the same normalized
\* identifier, date and provider behaviour.
C16_SubscribeResolvesLikeChat ==
    (endpoint = "subscribe" /\ Resolved)
    => \A v \in ChatVariants :
         ObservedResolution = ChatResolution(v, SubscribeIdentRaw)

\* The handler's run has ended: it neither has the request still to read
\* nor waits for an answer; it returned, or an exception left it.
Settled == pc # "received" /\ ~Awaiting

\* C17: every request is answered in the fixed shape: once every call the
\* handler awaited has returned or thrown and its run has ended, it has sent
\* one response, with status 200; no exception leaves it unanswered.
C17_EveryRequestAnswered ==
    Settled => (Done /\ Len(responses) = 1 /\ Response.status = 200)

\* What /webhook/chat does for the request at hand when it is handled alone:
\* a function of the request's body and of the provider's answers to it.
ExpectedChat ==
    LET r == ChatResolution(variant, ChatIdentRaw)
    IN  [queries |-> r.queries,
         response |-> IF r.outcome # "found" THEN Failure("No flights found")
                      ELSE IF variant = "part_000" THEN ChatPayload000(r.chosen)
                      ELSE ChatPayload(r.chosen)]

\* C18: with two requests in progress in any interleaving, after any
\* earlier requests, a request's provider queries and its response are those
\* it gets when handled alone; a step of one handler leaves the other
\* handler's locals alone; configuration and code never change.
C18_RequestsIndependent ==
    /\ []((endpoint = "chat" /\ Done /\ Resolving) =>
            /\ Len(FlightQueries(calls)) = Len(calls)
            /\ [queries |-> FlightQueries(calls), response |-> Response]
                 = ExpectedChat)
    /\ [][variant' = variant /\ cfg' = cfg]_vars
    /\ [][parked' = parked \/ (parked' = Running /\ Running' = parked)]_vars

\* The third request is answered with a flight while the handler of another
\* request, for another identifier, is suspended at its second query.
C18_Witness ==
    /\ served = MaxRequests /\ Done /\ Found
    /\ parked.pc = "await2" /\ parked.body # body

\* The airport's name when the leg has one, else its location code when it
\* has one, else null.
NameElseCode(leg) ==
    IF leg.present /\ Truthy(leg.name) THEN leg.name
    ELSE IF leg.present /\ Truthy(leg.code) THEN leg.code
    ELSE JsNull

\* C19: in every FOUND response of /webhook/chat, departing_from and
\* arriving_at carry the airport's name when the selected flight has one,
\* else the airport's location code when it has one, and null only when the
\* leg has neither.
C19_AirportNameElseCode ==
    (endpoint = "chat" /\ Found /\ chosen # NoFlight)
    => /\ Response.departing_from = NameElseCode(chosen.origin)
       /\ Response.arriving_at = NameElseCode(chosen.destination)

\* The normalized identifier of the request at hand.
OwnIdent == IF endpoint = "chat" THEN ChatIdentRaw ELSE SubscribeIdentRaw

\* The queries of the three strategies for the request at hand, in order:
\* calendar date, epoch window, calendar date with the translated identifier.
StrategyUrls ==
    <<buildFlightsUrlDate(OwnIdent, body.departureDate),
      buildFlightsUrlEpoch(OwnIdent, startEpoch, endEpoch),
      buildFlightsUrlDate(IcaoIdent(OwnIdent), body.departureDate)>>

\* The provider answered a query, and with no flight.
EmptyResult(a) == ~a.thrown /\ ~NonEmptyAnswer(a)

C21_NoQueryRepeated ==
    \A i, j \in 1..Len(calls) :
      (i < j /\ calls[i].kind = "flights" /\ calls[j].kind = "flights")
      => \/ calls[i].url.ident # calls[j].url.ident
         \/ calls[i].url.mode # calls[j].url.mode

\* Three flight queries were issued and none found a flight, the second
\* one after an answer that was not a success.
C21_Witness ==
    /\ Done /\ ~Response.ok
    /\ Len(FlightQueries(calls)) = 3
    /\ ~provider.date.ok

\* Days from 1970-01-01 to the first day of year y (y >= 1970), and from the
\* first day of year y to the first day of its month m, by the calendar.
RECURSIVE DaysToYear(_)
DaysToYear(y) ==
    IF y <= 1970 THEN 0
    ELSE DaysToYear(y - 1) + (IF IsLeapYear(y - 1) THEN 366 ELSE 365)

RECURSIVE DaysToMonth(_, _)
DaysToMonth(y, m) ==
    IF m <= 1 THEN 0 ELSE DaysToMonth(y, m - 1) + DaysInMonth(y, m - 1)

\* M: the UTC-midnight instant, in seconds, of the request's date.
RequestMidnight ==
    LET t == Trim(JsString(body.departureDate))
    IN  (DaysToYear(YearOf(t)) + DaysToMonth(YearOf(t), MonthOf(t)) + DayOf(t) - 1)
        * 86400

AlertCalls == {i \in 1..Len(calls) : calls[i].kind = "alerts"}

\* C23: the alert-registration POST is issued by /webhook/subscribe only,
\* at most once per request, only after flight resolution selected a flight
\* from a non-empty answer, and it is the request's last outbound call; a
\* request that ends invalid, misconfigured or not-found has not issued it.
C23_AlertPostOnceAfterResolution ==
    /\ Cardinality(AlertCalls) <= 1
    /\ \A i \in AlertCalls :
          /\ endpoint = "subscribe"
          /\ i = Len(calls)
          /\ chosen # NoFlight
          /\ flights # <<>>
          /\ \E j \in 1..(i - 1) :
                /\ calls[j].kind = "flights"
                /\ NonEmptyAnswer(fetchJson(calls[j].url, SubscribeIdentRaw))
    /\ (Done /\ Response.message \in
                  {"Missing userRef or departureDate", "Server missing AERO_KEY",
                   "Server missing alerts hook config", "Invalid Date",
                   "No flights found"})
         => AlertCalls = {}

\* The alert POST went out after the epoch-window query had found the
\* flight, and the handler waits for its answer.
C23_Witness ==
    /\ endpoint = "subscribe" /\ pc = "awaitAlert"
    /\ AlertCalls = {3}
    /\ NonEmptyAnswer(provider.epoch)

\* C24: the Selector returns a candidate without departure timestamp only
\* when no candidate of the list carries one, and then the first of the
\* list: a candidate with a timestamp, whatever its value, is preferred
\* over every candidate without.
C24_TimestampPreferred ==
    (selOut.done /\ selIn.flights # <<>>)
    => LET l == selIn.flights
           i == selOut.index
       IN  /\ i \in 1..Len(l)
           /\ ~HasTimestamp(l[i]) =>
                /\ \A j \in 1..Len(l) : ~HasTimestamp(l[j])
                /\ i = 1

\* ident is a key of the AirlineCodeMap followed by one to five digits.
KeyedIdent(ident) ==
    /\ Len(ident) \in 3..7
    /\ SubSeq(ident, 1, 2) \in AirlineCodeMapKeys
    /\ AllDigits(SubSeq(ident, 3, Len(ident)))

\* C25: every entry of the AirlineCodeMap serves translation: in the
\* version that holds the map, for an identifier made of a key of the map
\* and one to five digits, when both direct queries come back without
\* flights the third call is the calendar-date query on the mapped ICAO
\* prefix followed by the digits.
C25_EveryMapEntryUsable ==
    (variant = "part_000" /\ endpoint = "chat" /\ Done /\ Resolving
       /\ KeyedIdent(ChatIdentRaw)
       /\ EmptyAnswer(provider.date) /\ EmptyAnswer(provider.epoch))
    => /\ Len(calls) = 3
       /\ calls[3].kind = "flights"
       /\ calls[3].url =
            buildFlightsUrlDate(
                IATA_TO_ICAO(SubSeq(ChatIdentRaw, 1, 2))
                  \o SubSeq(ChatIdentRaw, 3, Len(ChatIdentRaw)),
                body.departureDate)

\* C26: every flight query of /webhook/subscribe carries a non-empty
\* identifier, and a subscribe request with neither flightno_icao nor
\* flightno_iata is answered without a call to the provider.
C26_SubscribeQueriesCarryIdentifier ==
    endpoint = "subscribe" =>
      /\ \A i \in 1..Len(calls) :
            calls[i].kind = "flights" => calls[i].url.ident # <<>>
      /\ (~Truthy(body.flightno_icao) /\ ~Truthy(body.flightno_iata))
           => calls = <<>>

\* C27: no response of /webhook/subscribe, success or failure, carries more
\* of the provider's answer to the alert POST than an excerpt of at most
\* DefaultN characters and the suffix.
C27_AlertBodyBounded ==
    (endpoint = "subscribe" /\ provider.alert.answered /\ ~provider.alert.thrown)
    => \A i \in 1..Len(responses) :
         \/ responses[i].provider_body = Undefined
         \/ BoundedExcerpt(responses[i].provider_body, provider.alert.raw)

=============================================================================
